---- MODULE Spec2Model ----
(***************************************************************************)
(* ToyVec<T> (ch07/toy-vec/src/lib.rs): a growable vector backed by one    *)
(* boxed slice whose every slot holds a live T, plus the Iter view over    *)
(* it.  Code index i is TLA+ sequence index i + 1.                         *)
(*                                                                         *)
(* The source spells Iterator::take as "task" (line 25) and enumerate as   *)
(* "enumearate" (line 74) and declares elements as Box<T> (lines 2, 93);   *)
(* the model reads them as take, enumerate and Box<[T]>, which is what     *)
(* allocate_in_heap returns and what the comments at lines 22-27 and       *)
(* 72-74 describe.                                                         *)
(***************************************************************************)
EXTENDS Integers, Sequences, FiniteSets

\* Bounds of the model.
MaxLen == 5          \* push is explored while len < MaxLen
MaxInitCap == 3      \* with_capacity(n) is explored for n in 0..MaxInitCap
MaxExtraNext == 2    \* next() calls explored past the cursor's end

\* T is modelled as a small integer type; Default::default() is 0.
Default == 0
Values == {Default, 1, 2}

\* Option<T>, and the outcome of a slice index out of bounds.
None == [tag |-> "None"]
Some(v) == [tag |-> "Some", val |-> v]
Unit == [tag |-> "Unit"]
Panic == [tag |-> "Panic"]
NoIter == [tag |-> "NoIter"]
NoTrip == [stage |-> "none"]

VARIABLES
    vec,      \* the ToyVec: [elements |-> boxed slice, len |-> usize]
    ret,      \* the last call: [op, arg, val]
    cap0,     \* history: the capacity the ToyVec was constructed with
    hist,     \* history: the values pushed so far, while no pop was called
    popped,   \* history: pop was called at least once
    vacated,  \* history: the index the immediately preceding pop vacated, or -1
    rt,       \* history: a push (and the pop right after it) with the ToyVec before it
    iter,     \* the Iter borrowed from vec, or NoIter
    item,     \* the last result of Iter::next
    calls     \* history: the number of next() calls on iter

vars == <<vec, ret, cap0, hist, popped, vacated, rt, iter, item, calls>>
iterVars == <<iter, item, calls>>

----------------------------------------------------------------------------
\* The methods of ToyVec, as functions of self.

allocate_in_heap(size) == [i \in 1..size |-> Default]

with_capacity(n) == [elements |-> allocate_in_heap(n), len |-> 0]

new == with_capacity(0)

len(self) == self.len

capacity(self) == Len(self.elements)

\* grow, moving no element into the new storage.
grow_drop(self) ==
    IF capacity(self) = 0
    THEN [self EXCEPT !.elements = allocate_in_heap(1)]
    ELSE [self EXCEPT !.elements = allocate_in_heap(capacity(self) * 2)]

\* grow, adding one slot instead of doubling.
grow_by_one(self) ==
    [self EXCEPT !.elements =
        [i \in 1..(capacity(self) + 1) |->
            IF i <= capacity(self) THEN self.elements[i] ELSE Default]]

grow(self) ==
    IF capacity(self) = 0
    THEN [self EXCEPT !.elements = allocate_in_heap(1)]
    ELSE LET new_elements == allocate_in_heap(capacity(self) * 2)
             old_elements == self.elements
         IN  [self EXCEPT !.elements =
                 [i \in 1..Len(new_elements) |->
                     IF i <= Len(old_elements) THEN old_elements[i]
                                               ELSE new_elements[i]]]

\* push, never growing: a full ToyVec drops the element and still counts it.
push_no_grow(self, element) ==
    IF self.len < capacity(self)
    THEN [self |-> [elements |-> [self.elements EXCEPT ![self.len + 1] = element],
                    len |-> self.len + 1],
          ret |-> Unit]
    ELSE [self |-> [self EXCEPT !.len = self.len + 1], ret |-> Unit]

\* push: [self |-> the ToyVec afterwards, ret |-> Unit, or Panic when
\* elements[self.len] is out of bounds].
push(self, element) ==
    LET grown == IF self.len = capacity(self) THEN grow(self) ELSE self
    IN  IF grown.len < capacity(grown)
        THEN [self |-> [elements |-> [grown.elements EXCEPT ![grown.len + 1] = element],
                        len |-> grown.len + 1],
              ret |-> Unit]
        ELSE [self |-> grown, ret |-> Panic]

\* get, with the bound test off by one.
get_off_by_one(self, index) ==
    IF index <= self.len
    THEN IF index < capacity(self) THEN Some(self.elements[index + 1]) ELSE Panic
    ELSE None

get(self, index) ==
    IF index < self.len
    THEN IF index < capacity(self) THEN Some(self.elements[index + 1]) ELSE Panic
    ELSE None

get_or(self, index, default) ==
    LET r == get(self, index)
    IN  IF r = None THEN Some(default) ELSE r

\* pop, resetting the slot before reading it.
pop_reset_first(self) ==
    IF self.len = 0
    THEN [self |-> self, ret |-> None]
    ELSE [self |-> [elements |-> [self.elements EXCEPT ![self.len] = Default],
                    len |-> self.len - 1],
          ret |-> Some(Default)]

\* pop, testing the capacity instead of the length: on an empty ToyVec with
\* storage, self.len -= 1 overflows.
pop_tests_capacity(self) ==
    IF capacity(self) = 0
    THEN [self |-> self, ret |-> None]
    ELSE IF self.len = 0
         THEN [self |-> self, ret |-> Panic]
         ELSE [self |-> [elements |-> [self.elements EXCEPT ![self.len] = Default],
                         len |-> self.len - 1],
               ret |-> Some(self.elements[self.len])]

\* pop, removing the first element instead of the last.
pop_front(self) ==
    IF self.len = 0
    THEN [self |-> self, ret |-> None]
    ELSE [self |-> [elements |-> [self.elements EXCEPT ![1] = Default],
                    len |-> self.len - 1],
          ret |-> Some(self.elements[1])]

\* pop, releasing unused storage once the ToyVec is empty.
pop_shrink(self) ==
    IF self.len = 0
    THEN [self |-> self, ret |-> None]
    ELSE IF self.len = 1
         THEN [self |-> [elements |-> allocate_in_heap(0), len |-> 0],
               ret |-> Some(self.elements[1])]
         ELSE [self |-> [elements |-> [self.elements EXCEPT ![self.len] = Default],
                         len |-> self.len - 1],
               ret |-> Some(self.elements[self.len])]

\* pop, returning a copy and leaving the value in the slot.
pop_keep_slot(self) ==
    IF self.len = 0
    THEN [self |-> self, ret |-> None]
    ELSE [self |-> [self EXCEPT !.len = self.len - 1],
          ret |-> Some(self.elements[self.len])]

\* pop: [self |-> the ToyVec afterwards, ret |-> Option<T>, or Panic].
pop(self) ==
    IF self.len = 0
    THEN [self |-> self, ret |-> None]
    ELSE LET l == self.len - 1
         IN  IF l < capacity(self)
             THEN [self |-> [elements |-> [self.elements EXCEPT ![l + 1] = Default],
                             len |-> l],
                   ret |-> Some(self.elements[l + 1])]
             ELSE [self |-> [self EXCEPT !.len = l], ret |-> Panic]

----------------------------------------------------------------------------
\* Iter: the struct is in the source; its constructor and next() follow the
\* design of the forward cursor.

iter_new(self) == [elements |-> self.elements, len |-> self.len, pos |-> 0]

\* next, starting over once exhausted.
next_restart(it) ==
    IF it.pos < it.len
    THEN [self |-> [it EXCEPT !.pos = it.pos + 1], ret |-> Some(it.elements[it.pos + 1])]
    ELSE [self |-> [it EXCEPT !.pos = 0], ret |-> None]

\* next: [self |-> the Iter afterwards, ret |-> Option<&T>].
next(it) ==
    IF it.pos < it.len
    THEN [self |-> [it EXCEPT !.pos = it.pos + 1], ret |-> Some(it.elements[it.pos + 1])]
    ELSE [self |-> it, ret |-> None]

----------------------------------------------------------------------------
\* The program: construction, then calls in any order.  A panic aborts the
\* program; while an Iter borrows the ToyVec, the borrow checker rejects
\* push and pop.

Running == ret.val # Panic

Init ==
    /\ \E n \in 0..MaxInitCap : vec = with_capacity(n) /\ cap0 = n
    /\ ret = [op |-> "new", arg |-> <<>>, val |-> Unit]
    /\ hist = <<>>
    /\ popped = FALSE
    /\ vacated = -1
    /\ rt = NoTrip
    /\ iter = NoIter
    /\ item = None
    /\ calls = 0

Push(v) ==
    /\ Running
    /\ iter = NoIter
    /\ vec.len < MaxLen
    /\ LET r == push(vec, v)
       IN  /\ vec' = r.self
           /\ ret' = [op |-> "push", arg |-> <<v>>, val |-> r.ret]
    /\ hist' = IF popped THEN hist ELSE Append(hist, v)
    /\ vacated' = -1
    /\ rt' = [stage |-> "pushed", base |-> vec, v |-> v]
    /\ UNCHANGED <<cap0, popped, iterVars>>

Pop ==
    /\ Running
    /\ iter = NoIter
    /\ LET r == pop(vec)
       IN  /\ vec' = r.self
           /\ ret' = [op |-> "pop", arg |-> <<>>, val |-> r.ret]
    /\ hist' = <<>>
    /\ popped' = TRUE
    /\ vacated' = IF vec.len = 0 THEN -1 ELSE vec.len - 1
    /\ rt' = IF rt.stage = "pushed" THEN [rt EXCEPT !.stage = "popped"] ELSE NoTrip
    /\ UNCHANGED <<cap0, iterVars>>

Get(index) ==
    /\ Running
    /\ ret' = [op |-> "get", arg |-> <<index>>, val |-> get(vec, index)]
    /\ rt' = NoTrip
    /\ UNCHANGED <<vec, cap0, hist, popped, vacated, iterVars>>

GetOr(index, default) ==
    /\ Running
    /\ ret' = [op |-> "get_or", arg |-> <<index, default>>, val |-> get_or(vec, index, default)]
    /\ rt' = NoTrip
    /\ UNCHANGED <<vec, cap0, hist, popped, vacated, iterVars>>

LenCall ==
    /\ Running
    /\ ret' = [op |-> "len", arg |-> <<>>, val |-> Some(len(vec))]
    /\ rt' = NoTrip
    /\ UNCHANGED <<vec, cap0, hist, popped, vacated, iterVars>>

CapacityCall ==
    /\ Running
    /\ ret' = [op |-> "capacity", arg |-> <<>>, val |-> Some(capacity(vec))]
    /\ rt' = NoTrip
    /\ UNCHANGED <<vec, cap0, hist, popped, vacated, iterVars>>

\* The indices a call is explored with: every slot, and one past the storage.
Indices == 0..capacity(vec)

Next ==
    \/ \E v \in Values : Push(v)
    \/ Pop
    \/ \E index \in Indices : Get(index)
    \/ \E index \in Indices, default \in Values : GetOr(index, default)
    \/ LenCall
    \/ CapacityCall

Spec == Init /\ [][Next]_vars

----------------------------------------------------------------------------
\* The cursor: one Iter is taken from the ToyVec and driven to its end and
\* past it; the ToyVec stays borrowed.

IterNew ==
    /\ Running
    /\ iter = NoIter
    /\ iter' = iter_new(vec)
    /\ item' = None
    /\ calls' = 0
    /\ ret' = [op |-> "iter", arg |-> <<>>, val |-> Unit]
    /\ rt' = NoTrip
    /\ UNCHANGED <<vec, cap0, hist, popped, vacated>>

IterNext ==
    /\ Running
    /\ iter # NoIter
    /\ calls < iter.len + MaxExtraNext
    /\ LET r == next(iter)
       IN  /\ iter' = r.self
           /\ item' = r.ret
    /\ calls' = calls + 1
    /\ ret' = [op |-> "next", arg |-> <<>>, val |-> Unit]
    /\ UNCHANGED <<vec, cap0, hist, popped, vacated, rt>>

NextIter ==
    \/ \E v \in Values : Push(v)
    \/ Pop
    \/ IterNew
    \/ IterNext

SpecIter == Init /\ [][NextIter]_vars

----------------------------------------------------------------------------
\* Properties.

PushStep == \E v \in Values : Push(v)
GetStep == \E index \in Indices : Get(index)
GetOrStep == \E index \in Indices, default \in Values : GetOr(index, default)

\* C1: in every reachable state 0 <= len() <= capacity().
C1_LenWithinCapacity == 0 <= len(vec) /\ len(vec) <= capacity(vec)

\* C1 witness: a full ToyVec after pushes, pops and a growth.
C1_Witness ==
    /\ popped
    /\ ret.op = "push"
    /\ len(vec) = capacity(vec)
    /\ capacity(vec) > cap0
    /\ len(vec) >= 2

\* C2: after k pushes and no pop, len() = k and get(i) is the i-th pushed
\* value for every i < k, whatever growth happened in between.
C2_PushesKeepOrder ==
    ~popped =>
        /\ len(vec) = Len(hist)
        /\ \A i \in 0..(Len(hist) - 1) : get(vec, i) = Some(hist[i + 1])

\* C2 witness: four pushes of differing values from new(), through three growths.
C2_Witness ==
    /\ ~popped
    /\ cap0 = 0
    /\ Len(hist) = 4
    /\ hist[1] # hist[2]
    /\ hist[2] # hist[3]
    /\ hist[1] # Default

\* C3: push(v) immediately followed by pop() returns v, restores len() and
\* leaves get(i) as it was for every i below that length.
C3_PushPopRoundTrip ==
    rt.stage = "popped" =>
        /\ ret.val = Some(rt.v)
        /\ len(vec) = len(rt.base)
        /\ \A i \in 0..(len(rt.base) - 1) : get(vec, i) = get(rt.base, i)

\* C3 witness: the round trip on a full ToyVec (the push grew it) of two or
\* more elements, pushing a non-default value.
C3_Witness ==
    /\ rt.stage = "popped"
    /\ len(rt.base) >= 2
    /\ len(rt.base) = capacity(rt.base)
    /\ rt.v # Default

\* C4: get(index) is None for every index >= len() and Some for every
\* index < len(), never a panic, and a get call leaves the ToyVec as it was.
C4_GetAnswer ==
    \A index \in 0..(capacity(vec) + 1) :
        IF index < len(vec)
        THEN get(vec, index) = Some(vec.elements[index + 1])
        ELSE get(vec, index) = None

C4_GetOutOfRange ==
    /\ []C4_GetAnswer
    /\ [][GetStep => vec' = vec /\ ret'.val # Panic]_vars

\* C4 witness: get at the index the preceding pop vacated, inside the storage.
C4_Witness ==
    /\ ret.op = "get"
    /\ vacated >= 0
    /\ ret.arg[1] = vacated
    /\ ret.arg[1] < capacity(vec)
    /\ ret.val = None

\* C5: pop() on an empty ToyVec returns None and changes nothing.
C5_PopEmpty ==
    [][(Pop /\ len(vec) = 0) => (ret'.val = None /\ vec' = vec)]_vars

\* C5 witness: pop returned None on an empty ToyVec that has storage and was
\* popped empty before.
C5_Witness ==
    /\ ret.op = "pop"
    /\ ret.val = None
    /\ len(vec) = 0
    /\ capacity(vec) > cap0

\* C6: a push on a full ToyVec of capacity c makes the capacity 1 if c = 0
\* and 2 * c otherwise; from new(), 1..5 pushes give 1, 2, 4, 4, 8.
CapacityFromNew == <<1, 2, 4, 4, 8>>

C6_GrowthStep ==
    (PushStep /\ len(vec) = capacity(vec)) =>
        capacity(vec') = IF capacity(vec) = 0 THEN 1 ELSE 2 * capacity(vec)

C6_GrowthSequence ==
    (cap0 = 0 /\ ~popped /\ Len(hist) \in 1..Len(CapacityFromNew)) =>
        capacity(vec) = CapacityFromNew[Len(hist)]

C6_GrowthPolicy == [][C6_GrowthStep]_vars /\ []C6_GrowthSequence

\* C6 witness: five pushes from new().
C6_Witness ==
    /\ cap0 = 0
    /\ ~popped
    /\ Len(hist) = Len(CapacityFromNew)
    /\ capacity(vec) = 2 * 2 * 2

\* C8: pop() on a ToyVec of length L > 0 returns the value at index L - 1,
\* makes the length L - 1 and leaves get(i) as it was for every i < L - 1.
C8_PopLast ==
    [][(Pop /\ len(vec) > 0) =>
          /\ ret'.val = Some(vec.elements[len(vec)])
          /\ len(vec') = len(vec) - 1
          /\ \A i \in 0..(len(vec) - 2) : get(vec', i) = get(vec, i)]_vars

\* C8 witness: a pop that returned a value and left two or more elements,
\* the first differing from the one returned.
C8_Witness ==
    /\ ret.op = "pop"
    /\ ret.val # None
    /\ len(vec) >= 2
    /\ ret.val # Some(vec.elements[1])

\* C9: capacity() changes only in a push on a full ToyVec, and never decreases.
C9_CapacityFrame ==
    [][/\ capacity(vec') # capacity(vec) => (PushStep /\ len(vec) = capacity(vec))
       /\ capacity(vec') >= capacity(vec)]_vars

\* C9 witness: a grown ToyVec popped empty, its capacity still the grown one.
C9_Witness ==
    /\ ret.op = "pop"
    /\ ret.val # None
    /\ len(vec) = 0
    /\ capacity(vec) >= 2 * 2
    /\ cap0 = 0

\* C10: every slot at an index i with len() <= i < capacity() holds the
\* default value.
C10_VacatedSlotsDefault ==
    \A i \in len(vec)..(capacity(vec) - 1) : vec.elements[i + 1] = Default

\* C10 witness: a pop returned a non-default value out of a slot inside the
\* storage, after a growth.
C10_Witness ==
    /\ ret.op = "pop"
    /\ ret.val \notin {None, Some(Default)}
    /\ vacated >= 0
    /\ vacated < capacity(vec)
    /\ capacity(vec) > cap0

\* C7: a cursor over a ToyVec of length n yields the elements at indices
\* 0, 1, ..., n - 1 in order; every later next() is None and leaves pos as
\* it is.
C7_CursorOrder ==
    (iter # NoIter /\ calls > 0) =>
        IF calls <= len(vec)
        THEN item = Some(vec.elements[calls]) /\ iter.pos = calls
        ELSE item = None /\ iter.pos = len(vec)

\* C7 witness: the second next() past the end of a cursor over three or
\* more elements.
C7_Witness ==
    /\ iter # NoIter
    /\ len(vec) >= 3
    /\ calls = len(vec) + 2
    /\ item = None
    /\ vec.elements[1] # vec.elements[2]

====
